---- MODULE Spec2Model ----
(***************************************************************************)
(* Sales ingestion of prefect_business_plan: the two import pipelines      *)
(* (importers/import_sales.py, "strict", invoked by the flow, and          *)
(* import_sales.py, "creating", with utils/db_utils.bulk_insert), the seed *)
(* step (data_init/initialize_tables_timeline.py) and the projects and     *)
(* sales tables they write.                                                *)
(*                                                                         *)
(* Data frames are modelled as sequences (row order) or sets (grouped      *)
(* output) of rows; a spreadsheet row is a function from the header        *)
(* strings of its file to cells.  uuid4 values are modelled as the least   *)
(* natural number not yet used as an identifier of the table.  A store     *)
(* write can fail (connection loss): the environment chooses.              *)
(***************************************************************************)
EXTENDS Integers, Sequences, FiniteSets, TLC

\* ------------------------------------------------------------------ bounds
\* Rows per spreadsheet.
MaxRows == 2
\* Years the seed step fills (initialize_tables_timeline's default range has four).
TimelineYears == 1

\* ------------------------------------------------------- program constants
MIN_VALID_YEAR == 2000
START_YEAR == 2024

\* ------------------------------------------------------------- input sets
\* Python None of an absent column (row.get of a missing key).
None == "<None>"
\* A header that is no date.
NoDate == <<0, 0, 0>>
\* get_project_id / fetch_project_id found nothing (ValueError / None).
NoId == 0

ProjectNames == {"Acme", "Ghost"}
Currencies == {"USD"}
SegmentCells == {"B2B"}
ParameterCells == {"total_gs"}
DataFieldCells == {"total_gs", "total_ewc"}
ValueCells == {-20, 30}
SEGMENTS == {"B2B", "B2C"}

\* The header rows of the spreadsheets: identity columns, then the others.
LayoutStrict == <<"project_name", "currency", "segment", "parameter", "2024-01-01", "2024-02-01">>
LayoutCreating == <<"project_name", "currency", "segment", "data_fields", "2024-01-01">>
LayoutNoDates == <<"project_name", "currency", "segment", "parameter", "notes">>
Layouts == {LayoutStrict, LayoutCreating, LayoutNoDates}

Range(s) == {s[i] : i \in DOMAIN s}

\* dateutil.parser.parse(header, dayfirst=False, fuzzy=False) on the headers above;
\* NoDate stands for its ValueError.
dateutil_parse(h) ==
    CASE h = "2024-01-01" -> <<2024, 1, 1>>
      [] h = "2024-02-01" -> <<2024, 2, 1>>
      [] h = "2024-01-15" -> <<2024, 1, 15>>
      [] h = "2024-02-15" -> <<2024, 2, 15>>
      [] h = "1999-12-01" -> <<1999, 12, 1>>
      [] OTHER -> NoDate

\* datetime.strptime over DATE_FORMATS: none of the headers dateutil rejects
\* matches one of the formats.
strptime_formats(h) == NoDate

parse_date_dynamic(h) ==
    IF dateutil_parse(h) # NoDate THEN dateutil_parse(h) ELSE strptime_formats(h)

Year(d) == d[1]

\* The columns that hold amounts are the ones whose header is a date; every other
\* column holds text.
TextCells(h) ==
    CASE h = "project_name" -> ProjectNames
      [] h = "currency" -> Currencies
      [] h = "segment" -> SegmentCells
      [] h = "parameter" -> ParameterCells
      [] h = "data_fields" -> DataFieldCells
      [] OTHER -> {"x"}

TextColumns(L) == {h \in Range(L) : dateutil_parse(h) = NoDate}
NumColumns(L) == {h \in Range(L) : dateutil_parse(h) # NoDate}

\* All rows of a sheet with header row L: txt the text cells, num the amounts.
RowsOf(L) ==
    {[txt |-> [h \in TextColumns(L) |->
                 CASE h = "project_name" -> n
                   [] h = "currency" -> c
                   [] h = "segment" -> s
                   [] h = "parameter" -> m
                   [] h = "data_fields" -> d
                   [] OTHER -> "x"],
      num |-> v] :
        n \in TextCells("project_name"), c \in TextCells("currency"), s \in TextCells("segment"),
        m \in TextCells("parameter"), d \in TextCells("data_fields"),
        v \in [NumColumns(L) -> ValueCells]}

\* read_excel_file_polars: a sheet without a data row raises, so a file that is
\* read has at least one row.
Files == UNION {[columns : {L}, rows : UNION {[1..n -> RowsOf(L)] : n \in 1..MaxRows}] : L \in Layouts}

\* The contents of the folder data/initial/sales: one spreadsheet.
Folders == {{f} : f \in Files}

\* ------------------- sheets with other headers, blank names, text cells
\* The column that selects the metric: "parameter" for importers/import_sales.py,
\* "data_fields" for import_sales.py.
Selectors == {"parameter", "data_fields"}

SheetColumns(selector, dates) == <<"project_name", "currency", "segment", selector>> \o dates

IdentityCells(project_name, selector) ==
    [h \in {"project_name", "currency", "segment", selector} |->
        CASE h = "project_name" -> project_name
          [] h = "currency" -> "USD"
          [] h = "segment" -> "B2B"
          [] OTHER -> "total_gs"]

\* Two date columns: the first days of two months, a later day of each, or two days
\* of one month.
HeaderPairs ==
    {<<"2024-01-01", "2024-02-01">>, <<"2024-01-15", "2024-02-15">>, <<"2024-01-01", "2024-01-15">>}

\* One row of Acme with 100 in the first date column and -50 in the second.
TwoMonthFiles ==
    {[columns |-> SheetColumns(sel, hp),
      rows |-> <<[txt |-> IdentityCells("Acme", sel), num |-> (hp[1] :> 100) @@ (hp[2] :> -50)]>>] :
        sel \in Selectors, hp \in HeaderPairs}

\* A project_name cell that is empty, the empty string or the text "None".
BlankNames == {None, "", "None"}

\* A row with a blank project name, then a row of a named project.
BlankNameFiles ==
    {[columns |-> SheetColumns(sel, <<"2024-01-01">>),
      rows |-> <<[txt |-> IdentityCells(b, sel), num |-> ("2024-01-01" :> 30)],
                 [txt |-> IdentityCells(n, sel), num |-> ("2024-01-01" :> 30)]>>] :
        sel \in Selectors, b \in BlankNames, n \in ProjectNames}

\* A row whose cell in the date column is the text "n/a", then a row of Acme with 30.
TextCellFiles ==
    {[columns |-> SheetColumns(sel, <<"2024-01-01">>),
      rows |-> <<[txt |-> IdentityCells(n, sel) @@ ("2024-01-01" :> "n/a"), num |-> <<>>],
                 [txt |-> IdentityCells("Acme", sel), num |-> ("2024-01-01" :> 30)]>>] :
        sel \in Selectors, n \in ProjectNames}

\* One row of Acme with 30 in January 2024.
StoredFile(sel) ==
    [columns |-> SheetColumns(sel, <<"2024-01-01">>),
     rows |-> <<[txt |-> IdentityCells("Acme", sel), num |-> ("2024-01-01" :> 30)]>>]

\* One row of Acme whose January 2024 cell is 0, is empty, or is negative.
ZeroFile(sel, cell) ==
    [columns |-> SheetColumns(sel, <<"2024-01-01">>),
     rows |-> <<CASE cell = "zero" -> [txt |-> IdentityCells("Acme", sel), num |-> ("2024-01-01" :> 0)]
                  [] cell = "empty" -> [txt |-> IdentityCells("Acme", sel) @@ ("2024-01-01" :> None),
                                        num |-> <<>>]
                  [] OTHER -> [txt |-> IdentityCells("Acme", sel), num |-> ("2024-01-01" :> -20)]>>]

ZeroCells == {"zero", "empty", "negative"}

\* One row with 30 in a column of December 1999, alone or before a column of January
\* 2024.
OldYearFiles ==
    {[columns |-> SheetColumns(sel, dates),
      rows |-> <<[txt |-> IdentityCells(n, sel), num |-> [h \in Range(dates) |-> 30]]>>] :
        sel \in Selectors, n \in ProjectNames,
        dates \in {<<"1999-12-01">>, <<"1999-12-01", "2024-01-01">>}}

\* How a sheet provides no currency: it has no currency column, or the cell is empty,
\* or the cell is the empty string.
NoCurrencyKinds == {"absent", "empty", "blank"}

\* One row of Acme with 30 in January 2024 and no currency.
NoCurrencyFile(sel, kind) ==
    LET cells == IdentityCells("Acme", sel) IN
    IF kind = "absent"
    THEN [columns |-> <<"project_name", "segment", sel, "2024-01-01">>,
          rows |-> <<[txt |-> [h \in DOMAIN cells \ {"currency"} |-> cells[h]],
                      num |-> ("2024-01-01" :> 30)]>>]
    ELSE [columns |-> SheetColumns(sel, <<"2024-01-01">>),
          rows |-> <<[txt |-> [cells EXCEPT !["currency"] = IF kind = "empty" THEN None ELSE ""],
                      num |-> ("2024-01-01" :> 30)]>>]

NoCurrencyFiles == {NoCurrencyFile(sel, kind) : sel \in Selectors, kind \in NoCurrencyKinds}

\* One row of Acme with 30 in January 2024 whose segment cell is empty or the empty
\* string.
NoSegmentFiles ==
    {[columns |-> SheetColumns(sel, <<"2024-01-01">>),
      rows |-> <<[txt |-> [IdentityCells("Acme", sel) EXCEPT !["segment"] = cell],
                  num |-> ("2024-01-01" :> 30)]>>] :
        sel \in Selectors, cell \in {None, ""}}

\* The folder holds one of the sheets above, or a sheet with 30 for a key and a sheet
\* with a zero for the same key.
WideFolders ==
    {{f} : f \in TwoMonthFiles \cup BlankNameFiles \cup TextCellFiles \cup OldYearFiles
                      \cup NoCurrencyFiles \cup NoSegmentFiles}
        \cup {{StoredFile(sel), ZeroFile(sel, cell)} : sel \in Selectors, cell \in ZeroCells}


\* --------------------------------------------------------------- helpers
RECURSIVE SeqSum(_)
\* Sum of the value field over a sequence of long-format rows.
SeqSum(s) == IF s = <<>> THEN 0 ELSE Head(s).value + SeqSum(Tail(s))

RECURSIVE SetSum(_)
\* Sum of the value field over a set of long-format rows.
SetSum(S) ==
    IF S = {} THEN 0
    ELSE LET x == CHOOSE y \in S : TRUE IN x.value + SetSum(S \ {x})

RECURSIVE Concat(_)
Concat(ss) == IF ss = <<>> THEN <<>> ELSE Head(ss) \o Concat(Tail(ss))

\* row.get(col) on a text column: None when the sheet has no such column.
GetText(row, col) == IF col \in DOMAIN row.txt THEN row.txt[col] ELSE None

\* Python truthiness of a text cell.
Falsy(v) == v = None \/ v = ""

\* The cell of a date column holds text that is no number (an empty cell is None).
IsText(row, col) == col \notin DOMAIN row.num /\ ~Falsy(GetText(row, col))

\* float(row.get(date_col, 0.0) or 0.0) of a cell that is a number or empty; on other
\* text float() raises ValueError.
float_or_zero(row, date_col) == IF date_col \in DOMAIN row.num THEN row.num[date_col] ELSE 0

\* pl.col("value").cast(pl.Float64, strict=False).fill_null(0.0)
cast_fill_null(row, col) == IF col \in DOMAIN row.num THEN row.num[col] ELSE 0

Key3(r) == <<r.project, r.segment, r.date_of_month_begin>>
Key4(r) == <<r.project, r.segment, r.date_of_month_begin, r.parameter>>

\* A faulty aggregation that keeps the first value of each group instead of the sum.
GroupFirst(records) ==
    {[project |-> k[1], segment |-> k[2], date_of_month_begin |-> k[3], parameter |-> k[4],
      value |-> SelectSeq(records, LAMBDA r : Key4(r) = k)[1].value] :
        k \in {Key4(records[i]) : i \in DOMAIN records}}

\* A faulty aggregation that counts every row of a group twice.
GroupSumTwice(records) ==
    {[project |-> k[1], segment |-> k[2], date_of_month_begin |-> k[3], parameter |-> k[4],
      value |-> 2 * SeqSum(SelectSeq(records, LAMBDA r : Key4(r) = k))] :
        k \in {Key4(records[i]) : i \in DOMAIN records}}

\* groupby(project, segment, date_of_month_begin, parameter)["value"].sum()
GroupSum(records) ==
    {[project |-> k[1], segment |-> k[2], date_of_month_begin |-> k[3], parameter |-> k[4],
      value |-> SeqSum(SelectSeq(records, LAMBDA r : Key4(r) = k))] :
        k \in {Key4(records[i]) : i \in DOMAIN records}}

\* A faulty floor that lets negative values through.
Floor0_identity(x) == x

\* lambda x: 0 if x < 0 else x
Floor0(x) == IF x < 0 THEN 0 ELSE x

\* clean_negative_values(df, ["value"]) on the aggregated long rows.
clean_negative_values(df) == {[r EXCEPT !.value = Floor0(r.value)] : r \in df}

\* ----------------------------------------------------------------- store
\* uuid.uuid4(): an identifier no row of the table T has.
NewId(T) ==
    LET ids == {t.id : t \in T}
    IN CHOOSE n \in 1..(Cardinality(ids) + 1) : n \notin ids

\* A sales table without its unique index: no INSERT is rejected.
NoUniqueIndex(S, R) == FALSE

\* SalesModel's unique index (project_id, date_of_month_begin, segment): an INSERT of
\* rows R into the table S raises IntegrityError.
UniqueViolation(S, R) ==
    \/ {Key3(r) : r \in R} \cap {Key3(t) : t \in S} # {}
    \/ \E r1, r2 \in R : r1 # r2 /\ Key3(r1) = Key3(r2)

SalesRow(id, key, gs, ewc, gm) ==
    [id |-> id, project |-> key[1], segment |-> key[2], date_of_month_begin |-> key[3],
     total_gs |-> gs, total_ewc |-> ewc, total_gm |-> gm]

\* ------------------------------------ importers/import_sales.py (strict)
FIELD_MAPPING_STRICT == {"project_name", "currency", "segment", "parameter"}

detect_date_columns_strict(columns) ==
    SelectSeq(columns, LAMBDA col :
        /\ col \notin FIELD_MAPPING_STRICT
        /\ parse_date_dynamic(col) # NoDate
        /\ Year(parse_date_dynamic(col)) >= MIN_VALID_YEAR)

\* df[col].astype(str) on the identity columns the sheet has: str(None) is "None".
cast_column_types_strict(row) ==
    [row EXCEPT !.txt = [h \in DOMAIN row.txt |->
        IF h \in FIELD_MAPPING_STRICT /\ row.txt[h] = None THEN "None" ELSE row.txt[h]]]

\* A faulty lookup that invents an identifier for an unknown project instead of raising.
get_project_id_lenient(project_name, currency, P) ==
    IF Falsy(project_name) \/ project_name = "None" THEN NoId
    ELSE LET found == {p \in P : p.project_name = project_name /\ p.currency = currency}
         IN IF found = {} THEN Cardinality(P) + 1 ELSE (CHOOSE p \in found : TRUE).id

\* NoId stands for the ValueError of an invalid name or of no matching project.
get_project_id(project_name, currency, P) ==
    IF Falsy(project_name) \/ project_name = "None" THEN NoId
    ELSE LET found == {p \in P : p.project_name = project_name /\ p.currency = currency}
         IN IF found = {} THEN NoId ELSE (CHOOSE p \in found : TRUE).id

\* parameter.split("_")[1].lower() if "_" in parameter else parameter.lower()
NormalizeParameter(parameter) ==
    CASE parameter = "total_gs" -> "gs"
      [] parameter = "total_ewc" -> "ewc"
      [] parameter = "total_gm" -> "gm"
      [] OTHER -> parameter

\* Whether the loop of aggregate_sales_data skips the row (skipped_rows += 1).
StrictSkips(row, P) ==
    LET project_name == GetText(row, "project_name")
        currency == IF "currency" \in DOMAIN row.txt THEN row.txt["currency"] ELSE "USD"
    IN \/ Falsy(project_name) \/ project_name = "None"
       \/ get_project_id(project_name, currency, P) = NoId
       \/ Falsy(GetText(row, "segment")) \/ Falsy(GetText(row, "parameter"))

\* The records one row appends, one per date column.
StrictRowRecords(row, date_columns, P) ==
    LET currency == IF "currency" \in DOMAIN row.txt THEN row.txt["currency"] ELSE "USD"
    IN IF StrictSkips(row, P) THEN <<>>
       ELSE [i \in 1..Len(date_columns) |->
                [project |-> get_project_id(GetText(row, "project_name"), currency, P),
                 segment |-> GetText(row, "segment"),
                 date_of_month_begin |-> parse_date_dynamic(date_columns[i]),
                 parameter |-> NormalizeParameter(GetText(row, "parameter")),
                 value |-> float_or_zero(row, date_columns[i])]]

\* aggregate_sales_data: the skip counter and the grouped long rows.
aggregate_sales_data_strict(rows, date_columns, P) ==
    [skipped_rows |-> Cardinality({i \in DOMAIN rows : StrictSkips(rows[i], P)}),
     df |-> GroupSum(Concat([i \in DOMAIN rows |-> StrictRowRecords(rows[i], date_columns, P)]))]

\* transform_to_model_format: one row per (project, segment, date_of_month_begin); the
\* uuid it generates per row is not read by bulk_insert and is left out.
transform_to_model_format_strict(df) ==
    {[project |-> k[1], segment |-> k[2], date_of_month_begin |-> k[3],
      total_gs |-> SetSum({r \in df : Key3(r) = k /\ r.parameter = "gs"}),
      total_ewc |-> SetSum({r \in df : Key3(r) = k /\ r.parameter = "ewc"}),
      total_gm |-> SetSum({r \in df : Key3(r) = k /\ r.parameter = "gm"})] :
        k \in {Key3(r) : r \in df}}

\* float() raises in the loop of aggregate_sales_data: a row that is not skipped holds
\* text in a date column.
StrictValueError(rows, date_columns, P) ==
    \E i \in DOMAIN rows :
        ~StrictSkips(rows[i], P) /\ \E col \in Range(date_columns) : IsText(rows[i], col)

\* The stages of main_job up to bulk_insert.  raised: no date column detected, or
\* the ValueError of float().
StrictPipeline(f, P) ==
    LET date_columns == detect_date_columns_strict(f.columns)
        rows == [i \in DOMAIN f.rows |-> cast_column_types_strict(f.rows[i])]
        agg == aggregate_sales_data_strict(rows, date_columns, P)
    IN IF date_columns = <<>> \/ StrictValueError(rows, date_columns, P)
       THEN [raised |-> TRUE, skipped_rows |-> 0, rows |-> {}]
       ELSE [raised |-> FALSE, skipped_rows |-> agg.skipped_rows,
             rows |-> transform_to_model_format_strict(clean_negative_values(agg.df))]

\* A faulty upsert that adds the incoming metrics to the stored ones.
strict_upsert_row_accumulate(S, row) ==
    LET existing == {t \in S : Key3(t) = Key3(row)}
    IN IF existing # {}
       THEN LET e == CHOOSE t \in existing : TRUE IN
            {IF t.id = e.id
             THEN [t EXCEPT !.total_gs = @ + row.total_gs, !.total_ewc = @ + row.total_ewc,
                            !.total_gm = @ + row.total_gm]
             ELSE t : t \in S}
       ELSE S \cup {[id |-> Cardinality(S) + 1, project |-> row.project, segment |-> row.segment,
                     date_of_month_begin |-> row.date_of_month_begin, total_gs |-> row.total_gs,
                     total_ewc |-> row.total_ewc, total_gm |-> row.total_gm]}

\* A faulty upsert that replaces the stored row of the key by a row with a new uuid.
strict_upsert_row_replace(S, row) ==
    LET others == {t \in S : Key3(t) # Key3(row)}
        top == Cardinality(S) + 1
    IN others \cup {[id |-> top + 1, project |-> row.project, segment |-> row.segment,
                     date_of_month_begin |-> row.date_of_month_begin, total_gs |-> row.total_gs,
                     total_ewc |-> row.total_ewc, total_gm |-> row.total_gm]}

\* A faulty upsert that clears the other rows of the project before it writes.
strict_upsert_row_clearing(S, row) ==
    LET kept == {t \in S : t.project # row.project \/ Key3(t) = Key3(row)}
        existing == {t \in kept : Key3(t) = Key3(row)}
    IN IF existing # {}
       THEN {IF Key3(t) = Key3(row)
             THEN [t EXCEPT !.total_gs = row.total_gs, !.total_ewc = row.total_ewc,
                            !.total_gm = row.total_gm]
             ELSE t : t \in kept}
       ELSE kept \cup {[id |-> Cardinality(S) + 1, project |-> row.project, segment |-> row.segment,
                        date_of_month_begin |-> row.date_of_month_begin, total_gs |-> row.total_gs,
                        total_ewc |-> row.total_ewc, total_gm |-> row.total_gm]}

\* One iteration of bulk_insert's loop whose statements succeed: get_or_none, then
\* update of the metric fields or create with a new uuid.
strict_upsert_row(S, row) ==
    LET existing == {t \in S : Key3(t) = Key3(row)}
    IN IF existing # {}
       THEN LET e == CHOOSE t \in existing : TRUE IN
            {IF t.id = e.id
             THEN [t EXCEPT !.total_gs = row.total_gs, !.total_ewc = row.total_ewc,
                            !.total_gm = row.total_gm]
             ELSE t : t \in S}
       ELSE S \cup {SalesRow(NewId(S), Key3(row), row.total_gs, row.total_ewc, row.total_gm)}

\* if not all([project_id, segment, date_of_month_begin]): the row is skipped unwritten.
MissingRequired(row) == row.project = NoId \/ Falsy(row.segment) \/ row.date_of_month_begin = NoDate


\* ------------------------------ data_init/initialize_tables_timeline.py
get_previous_month(d) == IF d[2] = 1 THEN <<d[1] - 1, 12, 1>> ELSE <<d[1], d[2] - 1, 1>>
get_next_month(d) == IF d[2] = 12 THEN <<d[1] + 1, 1, 1>> ELSE <<d[1], d[2] + 1, 1>>

DateBefore(a, b) ==
    \/ a[1] < b[1]
    \/ a[1] = b[1] /\ a[2] < b[2]
    \/ a[1] = b[1] /\ a[2] = b[2] /\ a[3] < b[3]

RECURSIVE TimelineFrom(_, _)
TimelineFrom(current_date, end_date) ==
    IF DateBefore(current_date, end_date)
    THEN {current_date} \cup TimelineFrom(get_next_month(current_date), end_date)
    ELSE {}

generate_monthly_timeline(start_year, end_year) ==
    TimelineFrom(<<start_year, 1, 1>>, <<end_year + 1, 1, 1>>)

\* A number of its own for every key: uuid4 values differ from one another.
KeyOrdinal(k) ==
    ((k[1] * 100 + (k[3][1] - MIN_VALID_YEAR)) * 12 + (k[3][2] - 1)) * 2 + (IF k[2] = "B2B" THEN 0 ELSE 1)

\* A zero-valued row for each of the keys, each with a uuid no row has: a number
\* above the largest identifier of the table.
InsertZeroRows(S, keys) ==
    LET ids == {t.id : t \in S}
        top == IF ids = {} THEN 0 ELSE CHOOSE n \in ids : \A m \in ids : m <= n
    IN S \cup {SalesRow(top + 1 + KeyOrdinal(k), k, 0, 0, 0) : k \in keys}

\* A faulty skeleton insert that overwrites the row of a stored key with the zeros of
\* the skeleton row.
InsertOnConflictReset(S, keys) ==
    InsertZeroRows({IF Key3(t) \in keys
                    THEN [t EXCEPT !.total_gs = 0, !.total_ewc = 0, !.total_gm = 0]
                    ELSE t : t \in S},
                   keys \ {Key3(t) : t \in S})

\* SalesModel.insert_many(records).on_conflict(conflict_target = the unique key,
\* update = {total_x: SalesModel.total_x}): a zero row for every key not stored; the
\* row of a stored key is set to its own values.
InsertOnConflictKeep(S, keys) ==
    InsertZeroRows(S, keys \ {Key3(t) : t \in S})

set_initial_values(S, P, initial_date) ==
    InsertOnConflictKeep(S, {<<p.id, segment, initial_date>> : p \in P, segment \in SEGMENTS})

\* timeline: generate_monthly_timeline(start_year, end_year).
init_timeline_data(S, P, timeline) ==
    InsertOnConflictKeep(S, {<<p.id, segment, month>> :
        p \in P, segment \in SEGMENTS, month \in timeline})

\* The months initialize_tables_timeline fills, and the month before them.
Timeline == generate_monthly_timeline(START_YEAR, START_YEAR + TimelineYears - 1)
InitialDate == get_previous_month(<<START_YEAR, 1, 1>>)

\* ------------------------- import_sales.py and utils (creating policy)
REQUIRED_COLS == {"project_name", "currency", "segment", "data_fields"}
DATA_FIELDS == {"total_gs", "total_ewc", "total_gm"}
\* The columns of the rows transform_to_model_format selects.
MODEL_ROW_FIELDS == {"id", "project", "segment", "date_of_month_begin"} \cup DATA_FIELDS
\* SalesModel.Meta.indexes: the fields of the unique index.
UNIQUE_FIELDS == <<"project_id", "date_of_month_begin", "segment">>

\* utils/df_utils.detect_date_columns: every header dateutil parses.
detect_date_columns(columns) == SelectSeq(columns, LAMBDA col : dateutil_parse(col) # NoDate)

\* clean_negative_values(df, date_columns) on the raw sheet, before aggregation.
clean_negative_cells(row, date_columns) ==
    [row EXCEPT !.num = [h \in DOMAIN row.num |->
        IF h \in Range(date_columns) THEN Floor0(row.num[h]) ELSE row.num[h]]]

\* The filter on the required columns: not null, not "", not "None".
ValidCreating(row) ==
    \A col \in REQUIRED_COLS : row.txt[col] # None /\ row.txt[col] # "" /\ row.txt[col] # "None"

\* A faulty lookup that never finds the project.
get_record_id_blind(project_name, currency, P) == NoId

\* utils/db_utils.get_record_id(ProjectModel, {project_name, currency}); NoId stands
\* for its ValueError.
get_record_id(project_name, currency, P) ==
    LET found == {p \in P : p.project_name = project_name /\ p.currency = currency}
    IN IF found = {} THEN NoId ELSE (CHOOSE p \in found : TRUE).id

RECURSIVE fetch_project_ids(_, _)
\* fetch_project_id mapped over the rows in order: the identifier of each row and the
\* projects table after the ProjectModel.create calls of the unmatched rows.
fetch_project_ids(rows, P) ==
    IF rows = <<>> THEN [projects |-> P, ids |-> <<>>]
    ELSE LET row == Head(rows)
             got == get_record_id(row.txt["project_name"], row.txt["currency"], P)
             id == IF got # NoId THEN got ELSE NewId(P)
             P1 == IF got # NoId THEN P
                   ELSE P \cup {[id |-> id, project_name |-> row.txt["project_name"],
                                 currency |-> row.txt["currency"], status |-> None]}
             rest == fetch_project_ids(Tail(rows), P1)
         IN [projects |-> rest.projects, ids |-> <<id>> \o rest.ids]

\* str.to_lowercase() on the data_fields cells.
to_lowercase(x) ==
    CASE x = "Total_GS" -> "total_gs"
      [] x = "TOTAL_EWC" -> "total_ewc"
      [] OTHER -> x

\* unpivot, parse and year filter: the long rows.  rows are the valid rows, ids their
\* project identifiers.  unpivot_group: their sum per (project_id, segment,
\* date_of_month_begin, data_fields).
unpivot_filter(rows, ids, date_columns) ==
    LET kept == SelectSeq(date_columns, LAMBDA col :
                    /\ parse_date_dynamic(col) # NoDate
                    /\ Year(parse_date_dynamic(col)) >= MIN_VALID_YEAR)
        long(col) == [i \in DOMAIN rows |->
                        [project |-> ids[i], segment |-> rows[i].txt["segment"],
                         date_of_month_begin |-> parse_date_dynamic(col),
                         parameter |-> to_lowercase(rows[i].txt["data_fields"]),
                         value |-> cast_fill_null(rows[i], col)]]
    IN Concat([j \in DOMAIN kept |-> long(kept[j])])

unpivot_group(rows, ids, date_columns) == GroupSum(unpivot_filter(rows, ids, date_columns))

\* A faulty projection that puts the values of a key into every metric column.
transform_to_model_format_unfiltered(df) ==
    {[project |-> k[1], segment |-> k[2], date_of_month_begin |-> k[3],
      total_gs |-> SetSum({r \in df : Key3(r) = k}),
      total_ewc |-> SetSum({r \in df : Key3(r) = k}),
      total_gm |-> SetSum({r \in df : Key3(r) = k})] :
        k \in {Key3(r) : r \in df}}

\* transform_to_model_format: pivot on data_fields, the three DATA_FIELDS filled with
\* zero, one row per (project, segment, date_of_month_begin).
transform_to_model_format(df) ==
    {[project |-> k[1], segment |-> k[2], date_of_month_begin |-> k[3],
      total_gs |-> SetSum({r \in df : Key3(r) = k /\ r.parameter = "total_gs"}),
      total_ewc |-> SetSum({r \in df : Key3(r) = k /\ r.parameter = "total_ewc"}),
      total_gm |-> SetSum({r \in df : Key3(r) = k /\ r.parameter = "total_gm"})] :
        k \in {Key3(r) : r \in df}}

\* The lambda x: 0 if x < 0 else x of clean_negative_values(df, date_columns) raises
\* on a text cell of a date column (map_elements passes null cells by).
CleanTypeError(rows, date_columns) ==
    \E i \in DOMAIN rows : \E col \in Range(date_columns) : IsText(rows[i], col)

\* The stages of main_job up to bulk_insert.  raised: no date column, a text cell in
\* a date column, or a required column is missing; projects: the table after the
\* creations.
CreatingPipeline(f, P) ==
    LET date_columns == detect_date_columns(f.columns)
        cleaned == [i \in DOMAIN f.rows |-> clean_negative_cells(f.rows[i], date_columns)]
        valid == SelectSeq(cleaned, ValidCreating)
        res == fetch_project_ids(valid, P)
    IN IF \/ date_columns = <<>>
          \/ CleanTypeError(f.rows, date_columns)
          \/ ~(REQUIRED_COLS \subseteq Range(f.columns))
       THEN [raised |-> TRUE, projects |-> P, rows |-> {}]
       ELSE [raised |-> FALSE, projects |-> res.projects,
             rows |-> transform_to_model_format(
                          clean_negative_values(unpivot_group(valid, res.ids, date_columns)))]

\* tuple(row.get(field) for field in unique_fields): a field the row lacks gives None.
RowKey(row) ==
    <<IF UNIQUE_FIELDS[1] \in MODEL_ROW_FIELDS THEN row.project ELSE NoId,
      row.date_of_month_begin, row.segment>>

\* existing_records: the stored rows matching the keys of the rows that have all
\* unique fields.
existing_records(S, valid_data) ==
    LET keys == {RowKey(row) : row \in {r \in valid_data : Range(UNIQUE_FIELDS) \subseteq MODEL_ROW_FIELDS}}
    IN {t \in S : /\ t.project \in {k[1] : k \in keys}
                  /\ t.date_of_month_begin \in {k[2] : k \in keys}
                  /\ t.segment \in {k[3] : k \in keys}}

update_data(S, valid_data) ==
    {row \in valid_data :
        RowKey(row) \in {<<t.project, t.date_of_month_begin, t.segment>> : t \in existing_records(S, valid_data)}}

insert_data(S, valid_data) == valid_data \ update_data(S, valid_data)

RECURSIVE InsertAll(_, _)
\* The rows of one INSERT statement, each with its own identifier.
InsertAll(S, rows) ==
    IF rows = {} THEN S
    ELSE LET r == CHOOSE x \in rows : TRUE IN
         InsertAll(S \cup {SalesRow(NewId(S), Key3(r), r.total_gs, r.total_ewc, r.total_gm)},
                   rows \ {r})

\* The UPDATE statements of the update path: the non-key fields by stored identifier.
UpdateAll(S, rows) ==
    {IF \E r \in rows : Key3(r) = Key3(t)
     THEN LET r == CHOOSE x \in rows : Key3(x) = Key3(t) IN
          [t EXCEPT !.total_gs = r.total_gs, !.total_ewc = r.total_ewc, !.total_gm = r.total_gm]
     ELSE t : t \in S}

\* utils/db_utils.bulk_insert(SalesModel, data) for the rows of one batch (batch_size
\* is 500): one insert_many statement, then one UPDATE per row.  lost: the connection is lost at
\* the first statement.  raised: the exception bulk_insert re-raises.
generic_bulk_insert(S, data, lost) ==
    LET ins == insert_data(S, data)
        upd == update_data(S, data)
    IN IF data = {} THEN [raised |-> FALSE, sales |-> S]
       ELSE IF lost \/ (ins # {} /\ UniqueViolation(S, ins))
       THEN [raised |-> TRUE, sales |-> S]
       ELSE [raised |-> FALSE, sales |-> UpdateAll(InsertAll(S, ins), upd)]


\* ------------------------------------------------------------------ state
VARIABLES
    folder,          \* the spreadsheets in data/initial/sales
    projects,        \* the projects table
    sales,           \* the sales table
    job,             \* the job that ran last: "none", "seed", "strict", "creating"
    status,          \* of that job: "Idle", "Upserting", "Completed", "Failed"
    file,            \* the spreadsheet of the last ingestion run
    handed,          \* the rows its pipeline handed to bulk_insert
    pending,         \* the rows bulk_insert's loop has not reached yet
    skipped_rows,    \* aggregate_sales_data's skip counter
    upsert_skipped,  \* bulk_insert's skip counter
    failed,          \* the handed rows whose store write failed
    conn_lost,       \* the connection was lost at a statement of the job
    pre,             \* the sales table when the job started
    preProjects,     \* the projects table when the job started
    rerun,           \* the run repeats the file of a completed, failure-free strict run
    runs,            \* the strict runs of two processes working at the same time
    task             \* import_sales_task: the listing, the file reached, the attempt

vars == <<folder, projects, sales, job, status, file, handed, pending, skipped_rows,
          upsert_skipped, failed, conn_lost, pre, preProjects, rerun, runs, task>>

\* import_sales_task before its first attempt: order the listing of get_all_files,
\* next the position of the file main_job is called for next, attempt the number of
\* the attempt, lost whether a statement of the attempt raised inside bulk_insert.
IdleTask == [state |-> "idle", order |-> <<>>, next |-> 0, attempt |-> 0, lost |-> FALSE]

\* The processes that run importers/import_sales.main_job at the same time.
Runs == {"p", "q"}

\* A process that has not started: pending the rows its loop has not reached, row the
\* row of the current iteration, existing_record the identifier get_or_none returned,
\* skipped_rows bulk_insert's counter, discarded the rows whose statement raised.
NoRow == [project |-> NoId, segment |-> None, date_of_month_begin |-> NoDate,
          total_gs |-> 0, total_ewc |-> 0, total_gm |-> 0]
IdleRun == [pc |-> "idle", pending |-> {}, row |-> NoRow, existing_record |-> NoId,
            skipped_rows |-> 0, discarded |-> {}]

NoFile == [columns |-> <<>>, rows |-> <<>>]

\* The database after init_db_flow and init_projects_flow: the seeded project, no
\* sales row; a spreadsheet lies in the folder.
Init ==
    /\ folder \in Folders
    /\ projects = {[id |-> 1, project_name |-> "Acme", currency |-> "USD", status |-> "active"]}
    /\ sales = {}
    /\ job = "none"
    /\ status = "Idle"
    /\ file = NoFile
    /\ handed = {}
    /\ pending = {}
    /\ skipped_rows = 0
    /\ upsert_skipped = 0
    /\ failed = {}
    /\ conn_lost = FALSE
    /\ pre = {}
    /\ preProjects = {}
    /\ rerun = FALSE
    /\ runs = [r \in Runs |-> IdleRun]
    /\ task = IdleTask

\* initialize_tables_timeline(): set_initial_values for the month before start_year,
\* then init_timeline_data, each in one transaction; both raise without a project.
InitializeTablesTimeline ==
    /\ status # "Upserting"
    /\ job' = "seed"
    /\ status' = IF projects = {} THEN "Failed" ELSE "Completed"
    /\ pre' = sales
    /\ preProjects' = projects
    /\ sales' = IF projects = {} THEN sales
                ELSE init_timeline_data(set_initial_values(sales, projects, InitialDate),
                                        projects, Timeline)
    /\ file' = NoFile
    /\ handed' = {}
    /\ pending' = {}
    /\ skipped_rows' = 0
    /\ upsert_skipped' = 0
    /\ failed' = {}
    /\ conn_lost' = FALSE
    /\ rerun' = FALSE
    /\ UNCHANGED <<folder, projects, runs, task>>

\* importers/import_sales.main_job(f) up to the entry of bulk_insert's loop.
StartStrictJob(f) ==
    /\ status # "Upserting"
    /\ LET out == StrictPipeline(f, projects) IN
        /\ handed' = out.rows
        /\ pending' = out.rows
        /\ skipped_rows' = out.skipped_rows
        /\ status' = IF out.raised THEN "Failed"
                     ELSE IF out.rows = {} THEN "Completed" ELSE "Upserting"
    /\ job' = "strict"
    /\ file' = f
    /\ rerun' = (job = "strict" /\ status = "Completed" /\ file = f /\ failed = {})
    /\ pre' = sales
    /\ preProjects' = projects
    /\ upsert_skipped' = 0
    /\ failed' = {}
    /\ conn_lost' = FALSE
    /\ UNCHANGED <<folder, projects, sales, runs>>

\* main_job(f) called for a file of the folder, outside import_sales_task.
StartStrict(f) == StartStrictJob(f) /\ UNCHANGED task

\* One iteration of the loop of importers/import_sales.bulk_insert; after the last one
\* main_job logs "Import completed".  ok: the statements of the iteration succeed;
\* otherwise the exception is caught, the row counted as skipped, the loop goes on.
UpsertRowJob(row, ok) ==
    /\ status = "Upserting"
    /\ row \in pending
    /\ pending' = pending \ {row}
    /\ status' = IF pending' = {} THEN "Completed" ELSE "Upserting"
    /\ IF MissingRequired(row)
       THEN /\ ok
            /\ upsert_skipped' = upsert_skipped + 1
            /\ UNCHANGED <<sales, failed, conn_lost>>
       ELSE IF ok
       THEN /\ sales' = strict_upsert_row(sales, row)
            /\ UNCHANGED <<upsert_skipped, failed, conn_lost>>
       ELSE /\ upsert_skipped' = upsert_skipped + 1
            /\ failed' = failed \cup {row}
            /\ conn_lost' = TRUE
            /\ UNCHANGED sales
    /\ UNCHANGED <<folder, projects, job, file, handed, skipped_rows, pre, preProjects, rerun, runs>>

\* The iteration in a main_job called outside import_sales_task.
UpsertRow(row, ok) == UpsertRowJob(row, ok) /\ UNCHANGED task

\* import_sales.main_job(f): the pipeline with its project creations, then
\* utils/db_utils.bulk_insert unless no row is left.  lost: the connection is lost at
\* bulk_insert's first statement.
IngestCreating(f) ==
    /\ status # "Upserting"
    /\ LET out == CreatingPipeline(f, projects) IN
       \E lost \in (IF ~out.raised /\ out.rows # {} THEN BOOLEAN ELSE {FALSE}) :
       LET res == generic_bulk_insert(sales, out.rows, lost)
       IN /\ projects' = out.projects
          /\ handed' = out.rows
          /\ sales' = IF out.raised THEN sales ELSE res.sales
          /\ status' = IF out.raised \/ res.raised THEN "Failed" ELSE "Completed"
          /\ failed' = IF ~out.raised /\ res.raised THEN out.rows ELSE {}
          /\ conn_lost' = lost
    /\ job' = "creating"
    /\ file' = f
    /\ rerun' = FALSE
    /\ pre' = sales
    /\ preProjects' = projects
    /\ pending' = {}
    /\ skipped_rows' = 0
    /\ upsert_skipped' = 0
    /\ UNCHANGED <<folder, runs, task>>

Next ==
    \/ InitializeTablesTimeline
    \/ \E f \in folder : StartStrict(f)
    \/ \E row \in pending, ok \in BOOLEAN : UpsertRow(row, ok)
    \/ \E f \in folder : IngestCreating(f)

Spec == Init /\ [][Next]_vars

\* The ingestion jobs without the seed step.
NextIngest ==
    \/ \E f \in folder : StartStrict(f)
    \/ \E row \in pending, ok \in BOOLEAN : UpsertRow(row, ok)
    \/ \E f \in folder : IngestCreating(f)

SpecIngest == Init /\ [][NextIngest]_vars

\* The same database and jobs, the folder holding the sheets of WideFolders.
InitWide ==
    /\ folder \in WideFolders
    /\ projects = {[id |-> 1, project_name |-> "Acme", currency |-> "USD", status |-> "active"]}
    /\ sales = {}
    /\ job = "none"
    /\ status = "Idle"
    /\ file = NoFile
    /\ handed = {}
    /\ pending = {}
    /\ skipped_rows = 0
    /\ upsert_skipped = 0
    /\ failed = {}
    /\ conn_lost = FALSE
    /\ pre = {}
    /\ preProjects = {}
    /\ rerun = FALSE
    /\ runs = [r \in Runs |-> IdleRun]
    /\ task = IdleTask

SpecWide == InitWide /\ [][Next]_vars

\* ------------------------------------------ two strict runs at one time
\* The sheets of the two processes: one row of Acme, an amount in each date column.
RaceFiles ==
    {[columns |-> LayoutStrict,
      rows |-> <<[txt |-> IdentityCells("Acme", "parameter"), num |-> v]>>] :
        v \in [NumColumns(LayoutStrict) -> ValueCells]}

\* The row of the next iteration of data.iterrows(): the frame is ordered by the
\* groupby keys, so by date for one project and segment.
NextRow(rows) ==
    CHOOSE x \in rows :
        \A y \in rows \ {x} : DateBefore(x.date_of_month_begin, y.date_of_month_begin)

\* Process r runs main_job(f) up to the entry of bulk_insert's loop.
RunStart(r, f) ==
    /\ runs[r].pc = "idle"
    /\ LET out == StrictPipeline(f, projects) IN
       runs' = [runs EXCEPT ![r] =
                   [IdleRun EXCEPT !.pc = IF out.raised THEN "failed"
                                         ELSE IF out.rows = {} THEN "done" ELSE "loop",
                                   !.pending = out.rows]]
    /\ UNCHANGED <<folder, projects, sales, job, status, file, handed, pending, skipped_rows,
                   upsert_skipped, failed, conn_lost, pre, preProjects, rerun, task>>

\* SalesModel.get_or_none(...) of the next row of process r: the first statement of
\* the iteration.
GetOrNone(r) ==
    /\ runs[r].pc = "loop"
    /\ LET row == NextRow(runs[r].pending)
           existing == {t \in sales : Key3(t) = Key3(row)}
       IN runs' = [runs EXCEPT ![r].pc = "write",
                               ![r].row = row,
                               ![r].existing_record =
                                   IF existing = {} THEN NoId ELSE (CHOOSE t \in existing : TRUE).id]
    /\ UNCHANGED <<folder, projects, sales, job, status, file, handed, pending, skipped_rows,
                   upsert_skipped, failed, conn_lost, pre, preProjects, rerun, task>>

\* The second statement of the iteration: UPDATE ... WHERE id = existing_record.id, or
\* SalesModel.create, whose IntegrityError (the key has been stored meanwhile) is caught
\* and counted; after the last row main_job logs "Import completed".
WriteRow(r) ==
    /\ runs[r].pc = "write"
    /\ LET row == runs[r].row
           rest == runs[r].pending \ {row}
           rejected == runs[r].existing_record = NoId /\ UniqueViolation(sales, {row})
       IN /\ sales' = IF runs[r].existing_record # NoId
                      THEN {IF t.id = runs[r].existing_record
                            THEN [t EXCEPT !.total_gs = row.total_gs, !.total_ewc = row.total_ewc,
                                           !.total_gm = row.total_gm]
                            ELSE t : t \in sales}
                      ELSE IF rejected THEN sales
                      ELSE sales \cup {SalesRow(NewId(sales), Key3(row), row.total_gs,
                                                row.total_ewc, row.total_gm)}
          /\ runs' = [runs EXCEPT ![r].pc = IF rest = {} THEN "done" ELSE "loop",
                                  ![r].pending = rest,
                                  ![r].row = NoRow,
                                  ![r].existing_record = NoId,
                                  ![r].skipped_rows = IF rejected THEN @ + 1 ELSE @,
                                  ![r].discarded = IF rejected THEN @ \cup {row} ELSE @]
    /\ UNCHANGED <<folder, projects, job, status, file, handed, pending, skipped_rows,
                   upsert_skipped, failed, conn_lost, pre, preProjects, rerun, task>>

InitRace ==
    /\ folder = RaceFiles
    /\ projects = {[id |-> 1, project_name |-> "Acme", currency |-> "USD", status |-> "active"]}
    /\ sales = {}
    /\ job = "none"
    /\ status = "Idle"
    /\ file = NoFile
    /\ handed = {}
    /\ pending = {}
    /\ skipped_rows = 0
    /\ upsert_skipped = 0
    /\ failed = {}
    /\ conn_lost = FALSE
    /\ pre = {}
    /\ preProjects = {}
    /\ rerun = FALSE
    /\ runs = [r \in Runs |-> IdleRun]
    /\ task = IdleTask

NextRace ==
    \/ \E r \in Runs, f \in folder : RunStart(r, f)
    \/ \E r \in Runs : GetOrNone(r)
    \/ \E r \in Runs : WriteRow(r)

SpecRace == InitRace /\ [][NextRace]_vars

\* --------------------------------------- flows/import_flow.import_sales_task
\* @task(retries=2, ...): the attempts after the first one.
RETRIES == 2

\* The folders of the task: two sheets, each with one row of Acme.
TaskFolders == {F \in SUBSET RaceFiles : Cardinality(F) = 2}

\* The listings os.listdir can return for a folder: its files in any order.
get_all_files(F) ==
    {o \in [1..Cardinality(F) -> F] : \A i, j \in 1..Cardinality(F) : o[i] = o[j] => i = j}

\* An attempt of import_sales_task begins: import_sales() lists the folder.  The first
\* attempt, or the one the orchestrator starts after a failed attempt.
TaskAttempt ==
    /\ task.state \in {"idle", "retrying"}
    /\ \E files_to_proceed \in get_all_files(folder) :
        task' = [state |-> "running", order |-> files_to_proceed, next |-> 1,
                 attempt |-> task.attempt + 1, lost |-> FALSE]
    /\ UNCHANGED <<folder, projects, sales, job, status, file, handed, pending, skipped_rows,
                   upsert_skipped, failed, conn_lost, pre, preProjects, rerun, runs>>

\* The task after main_job raised: import_sales and import_sales_task re-raise, the
\* orchestrator retries the task while retries are left.
Raised == [task EXCEPT !.state = IF task.attempt < RETRIES + 1 THEN "retrying" ELSE "failed"]

\* The next iteration of import_sales' loop: main_job(file) up to the entry of
\* bulk_insert's loop.  up: db.connect() and check_tables_exist() succeed; otherwise
\* main_job raises before it reads the file.
TaskMainJob(up) ==
    /\ task.state = "running"
    /\ status # "Upserting"
    /\ task.next <= Len(task.order)
    /\ IF up
       THEN /\ StartStrictJob(task.order[task.next])
            /\ task' = IF StrictPipeline(task.order[task.next], projects).raised THEN Raised
                       ELSE [task EXCEPT !.next = @ + 1]
       ELSE /\ job' = "strict"
            /\ status' = "Failed"
            /\ file' = task.order[task.next]
            /\ handed' = {}
            /\ pending' = {}
            /\ skipped_rows' = 0
            /\ upsert_skipped' = 0
            /\ failed' = {}
            /\ conn_lost' = TRUE
            /\ rerun' = FALSE
            /\ pre' = sales
            /\ preProjects' = projects
            /\ task' = Raised
            /\ UNCHANGED <<folder, projects, sales, runs>>

\* One iteration of bulk_insert's loop in a main_job of the task.
TaskUpsertRow(row, ok) ==
    /\ task.state = "running"
    /\ UpsertRowJob(row, ok)
    /\ task' = [task EXCEPT !.lost = @ \/ ~ok]

\* import_sales' loop is over: import_sales_task returns True.
TaskCompleted ==
    /\ task.state = "running"
    /\ status # "Upserting"
    /\ task.next > Len(task.order)
    /\ task' = [task EXCEPT !.state = "completed"]
    /\ UNCHANGED <<folder, projects, sales, job, status, file, handed, pending, skipped_rows,
                   upsert_skipped, failed, conn_lost, pre, preProjects, rerun, runs>>

InitTask ==
    /\ folder \in TaskFolders
    /\ projects = {[id |-> 1, project_name |-> "Acme", currency |-> "USD", status |-> "active"]}
    /\ sales = {}
    /\ job = "none"
    /\ status = "Idle"
    /\ file = NoFile
    /\ handed = {}
    /\ pending = {}
    /\ skipped_rows = 0
    /\ upsert_skipped = 0
    /\ failed = {}
    /\ conn_lost = FALSE
    /\ pre = {}
    /\ preProjects = {}
    /\ rerun = FALSE
    /\ runs = [r \in Runs |-> IdleRun]
    /\ task = IdleTask

NextTask ==
    \/ TaskAttempt
    \/ \E up \in BOOLEAN : TaskMainJob(up)
    \/ \E row \in pending, ok \in BOOLEAN : TaskUpsertRow(row, ok)
    \/ TaskCompleted

SpecTask == InitTask /\ [][NextTask]_vars

RECURSIVE UpsertAll(_, _)
\* bulk_insert's loop over the rows of a frame, every statement succeeding.
UpsertAll(S, rows) ==
    IF rows = {} THEN S
    ELSE LET row == NextRow(rows) IN
         UpsertAll(IF MissingRequired(row) THEN S ELSE strict_upsert_row(S, row), rows \ {row})

RECURSIVE ImportFiles(_, _, _)
\* import_sales' loop over a listing, no main_job raising and every statement
\* succeeding: the sales table it leaves.
ImportFiles(files_to_proceed, S, P) ==
    IF files_to_proceed = <<>> THEN S
    ELSE ImportFiles(Tail(files_to_proceed),
                     UpsertAll(S, StrictPipeline(Head(files_to_proceed), P).rows), P)

\* ------------------------------------------------------------- properties
Ingestion == {"strict", "creating"}
Finished == job \in Ingestion /\ status \in {"Completed", "Failed"}

\* The key and the metrics of every row of a sales table, without the identifiers.
KeyedMetrics(S) ==
    {[key |-> Key3(t), total_gs |-> t.total_gs, total_ewc |-> t.total_ewc, total_gm |-> t.total_gm] :
        t \in S}

SameMetrics(t, h) ==
    t.total_gs = h.total_gs /\ t.total_ewc = h.total_ewc /\ t.total_gm = h.total_gm

C2_SalesKeyUnique ==
    Cardinality({Key3(t) : t \in sales}) = Cardinality(sales)

\* C2's case: an ingestion run has met a store that already holds a row for a key it
\* was handed, next to the rows of other keys.
C2_Witness ==
    /\ Finished
    /\ \E h \in handed : \E t \in pre : Key3(t) = Key3(h)
    /\ Cardinality(sales) > Cardinality(handed)

\* C5: no sales row ever holds a negative total_gs, total_ewc or total_gm, whatever
\* the cells of the ingested files.
C5_MetricsNonNegative ==
    \A t \in sales : t.total_gs >= 0 /\ t.total_ewc >= 0 /\ t.total_gm >= 0

\* C5's case: a file whose cells for a key sum to a negative amount has been ingested
\* and the key is stored.
C5_Witness ==
    /\ Finished /\ status = "Completed" /\ failed = {}
    /\ \A i \in DOMAIN file.rows : \A h \in DOMAIN file.rows[i].num : file.rows[i].num[h] < 0
    /\ handed # {}
    /\ \A h \in handed : \E t \in sales : Key3(t) = Key3(h) /\ t.total_gs = 0

\* ------------------------------------------- what a file holds for a key
RECURSIVE FnSum(_)
\* The sum of the values of a function with a finite domain.
FnSum(fn) ==
    IF DOMAIN fn = {} THEN 0
    ELSE LET x == CHOOSE y \in DOMAIN fn : TRUE
         IN fn[x] + FnSum([y \in DOMAIN fn \ {x} |-> fn[y]])

NonNeg(x) == IF x > 0 THEN x ELSE 0

\* The column that names the metric in the files of the job's pipeline.
MetricColumn == IF job = "strict" THEN "parameter" ELSE "data_fields"

\* The row names a project of the projects table.
Resolvable(row) ==
    \E p \in projects : /\ p.project_name = GetText(row, "project_name")
                        /\ p.currency = GetText(row, "currency")

\* The cells <<row, header>> of the ingested file that are source values of key k and
\* metric m: the row names the project and the segment of k and the metric m, the
\* header is the month of k.
SourceCells(k, m) ==
    {c \in (DOMAIN file.rows) \X NumColumns(file.columns) :
        LET row == file.rows[c[1]] IN
        /\ \E p \in projects : /\ p.id = k[1]
                                /\ p.project_name = GetText(row, "project_name")
                                /\ p.currency = GetText(row, "currency")
        /\ GetText(row, "segment") = k[2]
        /\ dateutil_parse(c[2]) = k[3]
        /\ GetText(row, MetricColumn) = m}

SourceKeys ==
    {k \in {<<p.id, GetText(file.rows[i], "segment"), dateutil_parse(h)>> :
                p \in projects, i \in DOMAIN file.rows, h \in NumColumns(file.columns)} :
        \E m \in DATA_FIELDS : SourceCells(k, m) # {}}

\* The plain sum of the source values of a key and metric.
SourceSum(k, m) == FnSum([c \in SourceCells(k, m) |-> file.rows[c[1]].num[c[2]]])

\* The sum of the source values of a key and metric, negative cells counted as zero.
FlooredCellSum(k, m) == FnSum([c \in SourceCells(k, m) |-> NonNeg(file.rows[c[1]].num[c[2]])])

\* What the job's pipeline makes of the source values: importers/import_sales floors
\* the sum, import_sales floors the cells and sums them.
PipelineSum(k, m) ==
    IF job = "strict" THEN NonNeg(SourceSum(k, m)) ELSE FlooredCellSum(k, m)

OneRowPerKey(R) == \A r1, r2 \in R : Key3(r1) = Key3(r2) => r1 = r2

\* No stored row of a handed key holds anything but its value of before the run or
\* the whole handed row.
NoPartialContribution ==
    \A t \in sales : \A h \in handed : Key3(t) = Key3(h) => (t \in pre \/ SameMetrics(t, h))

C4_FloorAfterAggregation ==
    (Finished /\ status = "Completed" /\ ~conn_lost) =>
        \A k \in SourceKeys : \E t \in sales :
            Key3(t) = k /\ \A m \in DATA_FIELDS : t[m] = NonNeg(SourceSum(k, m))

\* C6 as stated: after an ingestion run in which the connection held, the stored row
\* of every handed key that was stored before the run holds the handed metrics.
C6_UpsertOverwrites ==
    (Finished /\ ~conn_lost) =>
        \A h \in handed : (\E w \in pre : Key3(w) = Key3(h)) =>
            \E t \in sales : Key3(t) = Key3(h) /\ SameMetrics(t, h)

\* C7: in a strict run of a file that has the identity columns, every row that names
\* no project counts one skip and nothing else counts; no project is created; no
\* handed or stored row refers to a project that does not exist; the handed rows are
\* those of the file without the unresolvable rows, and a run whose writes succeed
\* stores them.
C7_StrictSkipsUnresolvable ==
    (job = "strict" /\ status # "Failed" /\ FIELD_MAPPING_STRICT \subseteq Range(file.columns)) =>
        /\ skipped_rows = Cardinality({i \in DOMAIN file.rows : ~Resolvable(file.rows[i])})
        /\ projects = preProjects
        /\ \A r \in handed \cup sales : \E p \in projects : p.id = r.project
        /\ handed = StrictPipeline([file EXCEPT !.rows = SelectSeq(file.rows, Resolvable)],
                                   projects).rows
        /\ (status = "Completed" /\ failed = {}) =>
               \A h \in handed : \E t \in sales : Key3(t) = Key3(h) /\ SameMetrics(t, h)

\* C7's case: a file with one row of an unknown project and one row of a known one has
\* been ingested, one skip counted, the known row stored.
C7_Witness ==
    /\ job = "strict" /\ status = "Completed" /\ failed = {}
    /\ Len(file.rows) = 2
    /\ Cardinality({i \in DOMAIN file.rows : ~Resolvable(file.rows[i])}) = 1
    /\ skipped_rows = 1
    /\ handed # {}
    /\ \A h \in handed : \E t \in sales : Key3(t) = Key3(h) /\ SameMetrics(t, h)

\* C8 as stated: an ingestion run in which the write of a row failed leaves no write
\* of the run in the store.
C8_ChunkAllOrNothing ==
    (Finished /\ failed # {}) => sales = pre

\* C9 as stated: an ingestion run in which the write of a row failed ends Failed.
C9_WriteFailureFailsRun ==
    (job \in Ingestion /\ status # "Upserting" /\ failed # {}) => status = "Failed"

\* The file has no date header, or lacks an identity column of the job's pipeline.
LacksStructure ==
    \/ \A h \in Range(file.columns) : dateutil_parse(h) = NoDate
    \/ ~((IF job = "strict" THEN FIELD_MAPPING_STRICT ELSE REQUIRED_COLS) \subseteq Range(file.columns))

\* C10 as stated: the run of a file without a date column or without an identity column
\* ends Failed and leaves the sales and the projects table as they were.
C10_StructuralFailureFailsRun ==
    (Finished /\ LacksStructure) =>
        status = "Failed" /\ sales = pre /\ projects = preProjects

\* An identity cell that is blank, null or the text "None".
Blank(v) == v \in {None, "", "None"}

\* The row never reaches the aggregation: under the strict policy its project is blank
\* or unknown or its segment or parameter is blank, under the creating policy one of
\* its required cells is blank.
SkippedRow(row) ==
    IF job = "strict"
    THEN \/ Blank(GetText(row, "project_name")) \/ ~Resolvable(row)
         \/ Blank(GetText(row, "segment")) \/ Blank(GetText(row, "parameter"))
    ELSE \E col \in REQUIRED_COLS : Blank(GetText(row, col))

\* C11 as stated: the run of a file that has its columns and of which every row is
\* skipped ends Failed, not Completed.
C11_NoValidRowFailsRun ==
    (Finished /\ ~LacksStructure /\ \A i \in DOMAIN file.rows : SkippedRow(file.rows[i])) =>
        status = "Failed"

\* C17: every row transform_to_model_format produces has the three fields total_gs,
\* total_ewc and total_gm with a number in each, and 0 in a metric the file has no
\* source value for under the key of the row.
C17_AllMetricsPresent ==
    job \in Ingestion =>
        \A h \in handed :
            /\ DATA_FIELDS \subseteq DOMAIN h
            /\ \A m \in DATA_FIELDS :
                  h[m] \in Int /\ (SourceCells(Key3(h), m) = {} => h[m] = 0)

\* C17's case: a handed row of a key the file has total_gs values but no total_ewc and
\* no total_gm value for.
C17_Witness ==
    /\ job \in Ingestion
    /\ \E h \in handed :
          /\ SourceCells(Key3(h), "total_gs") # {}
          /\ SourceCells(Key3(h), "total_ewc") = {} /\ SourceCells(Key3(h), "total_gm") = {}
          /\ h.total_gs = 30 /\ h.total_ewc = 0 /\ h.total_gm = 0

\* The stored keys with their identifiers.
KeyIds(S) == {<<Key3(t), t.id>> : t \in S}

\* C18: no step of a seed or ingestion run removes a stored key or changes the
\* identifier stored for it.
C18_IdentifierStable ==
    [][KeyIds(sales) \subseteq KeyIds(sales')]_vars

\* C18's case: a strict run has rewritten the metrics of a row stored before the run,
\* the row keeping its identifier.
C18_Witness ==
    /\ job = "strict" /\ status = "Completed"
    /\ \E t \in sales, w \in pre :
          Key3(t) = Key3(w) /\ t.id = w.id /\ ~SameMetrics(t, w)

ProjectKeys(P) == {<<p.project_name, p.currency>> : p \in P}

\* C19: (project_name, currency) is unique in the projects table; after a creating run
\* that got past its column checks every valid row of the file names a project, the
\* projects of before the run are still there, and a project the run added is named by
\* a valid row and was not there before.
C19_OneProjectPerIdentity ==
    /\ Cardinality(ProjectKeys(projects)) = Cardinality(projects)
    /\ (job = "creating" /\ ~LacksStructure) =>
          /\ \A i \in DOMAIN file.rows : ~SkippedRow(file.rows[i]) => Resolvable(file.rows[i])
          /\ preProjects \subseteq projects
          /\ \A p \in projects \ preProjects :
                /\ <<p.project_name, p.currency>> \notin ProjectKeys(preProjects)
                /\ \E i \in DOMAIN file.rows :
                      /\ ~SkippedRow(file.rows[i])
                      /\ GetText(file.rows[i], "project_name") = p.project_name
                      /\ GetText(file.rows[i], "currency") = p.currency

\* C19's case: a creating run of a file with two rows of a project an earlier run had
\* created; the project has one row.
C19_Witness ==
    /\ job = "creating"
    /\ Len(file.rows) = 2
    /\ \A i \in DOMAIN file.rows : GetText(file.rows[i], "project_name") = "Ghost"
    /\ Cardinality({p \in projects : p.project_name = "Ghost"}) = 1
    /\ \E p \in preProjects : p.project_name = "Ghost"

\* ------------------------------------------------ properties of SpecWide
Day(d) == d[3]

\* C12 as stated: the date of every header an ingestion run accepted as a date column
\* has day-of-month 1, and so has every date_of_month_begin handed to the upsert or
\* stored; two accepted headers of one calendar month give one date.
C12_DatesAreMonthStarts ==
    /\ \A t \in sales \cup handed : Day(t.date_of_month_begin) = 1
    /\ job = "strict" =>
          \A c1, c2 \in Range(detect_date_columns_strict(file.columns)) :
              /\ Day(parse_date_dynamic(c1)) = 1
              /\ (parse_date_dynamic(c1)[1] = parse_date_dynamic(c2)[1]
                    /\ parse_date_dynamic(c1)[2] = parse_date_dynamic(c2)[2])
                  => parse_date_dynamic(c1) = parse_date_dynamic(c2)

\* The file has the metric column the job reads.
FileOfJob ==
    \/ job = "strict" /\ "parameter" \in Range(file.columns)
    \/ job = "creating" /\ "data_fields" \in Range(file.columns)

\* The date columns of the file are one of January 2024 and one of February 2024.
JanFebColumns ==
    \E c1, c2 \in Range(file.columns) :
        /\ Range(file.columns) \cap {"2024-01-01", "2024-02-01", "2024-01-15", "2024-02-15"} = {c1, c2}
        /\ dateutil_parse(c1)[2] = 1
        /\ dateutil_parse(c2)[2] = 2

\* C13 as stated: a strict run, its writes succeeding, of the file with one row
\* (Acme, USD, B2B, total_gs), 100 in the column of January 2024 and -50 in the column
\* of February 2024, on a store with Acme/USD and no sales row, leaves two sales rows:
\* 2024-01-01 with total_gs = 100 and 2024-02-01 with total_gs = 0.
C13_JanFebScenario ==
    (job = "strict" /\ status = "Completed" /\ failed = {} /\ pre = {} /\ FileOfJob
        /\ {file} \in {{f} : f \in TwoMonthFiles} /\ JanFebColumns) =>
        KeyedMetrics(sales) =
            {[key |-> <<1, "B2B", <<2024, 1, 1>>>>, total_gs |-> 100, total_ewc |-> 0, total_gm |-> 0],
             [key |-> <<1, "B2B", <<2024, 2, 1>>>>, total_gs |-> 0, total_ewc |-> 0, total_gm |-> 0]}

\* C14 as stated: no project has a blank name, every row handed to the upsert belongs
\* to a project, and the counter of rows a strict run skipped for a failed lookup or
\* a missing segment or parameter does not count the rows with a blank project name
\* (they are tallied apart).
C14_BlankIdentityCountedApart ==
    /\ \A p \in projects : ~Blank(p.project_name)
    /\ \A h \in handed : \E p \in projects : p.id = h.project
    /\ (job = "strict" /\ status # "Failed") =>
          skipped_rows = Cardinality({i \in DOMAIN file.rows :
                             /\ ~Blank(GetText(file.rows[i], "project_name"))
                             /\ SkippedRow(file.rows[i])})

\* The rows of the ingested file the job does not skip for their identity cells and
\* that hold text in a date column.
TextCellRows ==
    {i \in DOMAIN file.rows :
        /\ ~SkippedRow(file.rows[i])
        /\ \E col \in Range(file.columns) : dateutil_parse(col) # NoDate /\ IsText(file.rows[i], col)}

\* C15 as stated: a run of a file with a row that holds text in a date column, the
\* connection holding, does not fail: it completes, a strict run has counted the row,
\* and the rows of the file without such a cell have been handed to the upsert.
C15_TextCellRowSkipped ==
    (Finished /\ FileOfJob /\ ~conn_lost /\ TextCellRows # {}) =>
        /\ status = "Completed"
        /\ job = "strict" => skipped_rows >= Cardinality(TextCellRows)
        /\ TextCellRows # DOMAIN file.rows => handed # {}

\* The ingested file is one of the sheets whose only cell for (Acme, B2B, January
\* 2024) is 0, empty or negative.
ZeroFileIngested ==
    \E sel \in Selectors, cell \in ZeroCells : file = ZeroFile(sel, cell)

\* C16 as stated: a run of such a file, the connection holding, hands the key with
\* total_gs = 0 to the upsert, and after the run the stored row of the key has
\* total_gs = 0, whatever it held before.
C16_ZeroOverwrites ==
    (Finished /\ FileOfJob /\ ~conn_lost /\ ZeroFileIngested) =>
        /\ \E h \in handed : Key3(h) = <<1, "B2B", <<2024, 1, 1>>>> /\ h.total_gs = 0
        /\ \E t \in sales : Key3(t) = <<1, "B2B", <<2024, 1, 1>>>> /\ t.total_gs = 0

\* ------------------------------------------------ properties of SpecRace
\* C20 as stated: with two strict runs working at the same time the sales table holds
\* one row per key, and no run that has completed had a write discarded.
C20_NoLostUpdate ==
    /\ Cardinality({Key3(t) : t \in sales}) = Cardinality(sales)
    /\ \A r \in Runs : runs[r].pc = "done" => runs[r].discarded = {}

\* ------------------------------------------------- the seed step again
\* C29: a completed seed step leaves every sales row that existed before it as it
\* was, identifier and metrics, and every row it added has the three metrics at zero.
C29_SeedKeepsStoredValues ==
    (job = "seed" /\ status = "Completed") =>
        /\ pre \subseteq sales
        /\ \A t \in sales \ pre : t.total_gs = 0 /\ t.total_ewc = 0 /\ t.total_gm = 0

\* C29's case: the seed step ran on a store in which an ingestion had stored a nonzero
\* value, met that key and added zero rows for other keys.
C29_Witness ==
    /\ job = "seed" /\ status = "Completed"
    /\ \E t \in pre : t.total_gs > 0 /\ Key3(t) \in {<<p.id, "B2B", m>> : p \in projects, m \in Timeline}
    /\ sales # pre

\* ----------------------------------------- what an ingestion leaves alone
HandedKeys == {Key3(h) : h \in handed}

\* C24: during and after an ingestion run every sales row of before the run is still
\* stored under its key and identifier, the rows whose key the run was not handed are
\* as they were, every project of before the run is there with its name and currency,
\* and a strict run has left the projects table as it was.
C24_IngestionFrame ==
    job \in Ingestion =>
        /\ KeyIds(pre) \subseteq KeyIds(sales)
        /\ {t \in pre : Key3(t) \notin HandedKeys} \subseteq sales
        /\ preProjects \subseteq projects
        /\ job = "strict" => projects = preProjects

\* C24's case: a strict run has overwritten a stored row next to stored rows of keys it
\* was not handed.
C24_Witness ==
    /\ job = "strict" /\ status = "Completed"
    /\ \E t \in pre : Key3(t) \notin HandedKeys
    /\ \E t \in pre : Key3(t) \in HandedKeys /\ t \notin sales

\* The date-column set of the last ingestion run.
DateColumnSet ==
    IF job = "strict" THEN Range(detect_date_columns_strict(file.columns))
    ELSE Range(detect_date_columns(file.columns))

\* C22 as stated: every header in the date-column set of an ingestion run of a file
\* with the job's metric column parses to a
\* year of at least MIN_VALID_YEAR, and no row handed to the upsert or stored has a
\* date of an earlier year.
C22_MinYearGuard ==
    (job \in Ingestion /\ FileOfJob) =>
        /\ \A col \in DateColumnSet : Year(parse_date_dynamic(col)) >= MIN_VALID_YEAR
        /\ \A t \in sales \cup handed : Year(t.date_of_month_begin) >= MIN_VALID_YEAR

\* C23 as stated: a run, the connection holding and the sales table empty before it,
\* of a sheet whose row of Acme gives no currency resolves the row to Acme/USD and
\* stores its 30.
C23_DefaultCurrency ==
    (Finished /\ FileOfJob /\ ~conn_lost /\ pre = {} /\ {file} \in {{f} : f \in NoCurrencyFiles}) =>
        \E t \in sales : Key3(t) = <<1, "B2B", <<2024, 1, 1>>>> /\ t.total_gs = 30

\* C21 as stated: no sales row and no row handed to the upsert has a missing project,
\* a blank segment (empty, the empty string or the text "None") or a missing date, and
\* a strict run that did not fail has counted every row of the file with a blank
\* segment cell as skipped.
C21_NoBlankKeyComponent ==
    /\ \A t \in sales \cup handed :
          t.project # NoId /\ ~Blank(t.segment) /\ t.date_of_month_begin # NoDate
    /\ (job = "strict" /\ status # "Failed") =>
          skipped_rows + upsert_skipped >=
              Cardinality({i \in DOMAIN file.rows : Blank(GetText(file.rows[i], "segment"))})

\* ------------------------------------------ reshaping and aggregation
\* The pipeline of the last ingestion run raised before bulk_insert.
PipelineRaised ==
    IF job = "strict" THEN StrictPipeline(file, preProjects).raised
    ELSE CreatingPipeline(file, preProjects).raised

\* The rows of the file that survive the identity filtering of the job.
SurvivingRows ==
    IF job = "strict"
    THEN SelectSeq([i \in DOMAIN file.rows |-> cast_column_types_strict(file.rows[i])],
                   LAMBDA row : ~StrictSkips(row, preProjects))
    ELSE SelectSeq([i \in DOMAIN file.rows |->
                       clean_negative_cells(file.rows[i], detect_date_columns(file.columns))],
                   ValidCreating)

\* The long-format rows the reshaping of the last ingestion run produced.
LongRows ==
    IF job = "strict"
    THEN Concat([i \in DOMAIN SurvivingRows |->
                    StrictRowRecords(SurvivingRows[i], detect_date_columns_strict(file.columns),
                                     preProjects)])
    ELSE unpivot_filter(SurvivingRows, fetch_project_ids(SurvivingRows, preProjects).ids,
                        detect_date_columns(file.columns))

RECURSIVE FrameOf(_)
\* The rows of an aggregated frame as a sequence.
FrameOf(S) ==
    IF S = {} THEN <<>>
    ELSE LET x == CHOOSE y \in S : TRUE IN <<x>> \o FrameOf(S \ {x})

\* C25: for the long rows of an ingestion run whose pipeline did not raise, grouping
\* and summing the grouped and summed rows again gives the same rows and values.
C25_AggregationIdempotent ==
    (job \in Ingestion /\ ~PipelineRaised) =>
        GroupSum(FrameOf(GroupSum(LongRows))) = GroupSum(LongRows)

\* C25's case: two long rows of one group with a nonzero sum have been aggregated.
C25_Witness ==
    /\ job \in Ingestion /\ ~PipelineRaised
    /\ Len(LongRows) > Cardinality(GroupSum(LongRows))
    /\ \E g \in GroupSum(LongRows) : g.value # 0

\* The date columns the job detected, in header order.
DateColumns ==
    IF job = "strict" THEN detect_date_columns_strict(file.columns)
    ELSE detect_date_columns(file.columns)

\* C26 as stated: for an ingestion run whose pipeline did not raise, the number of
\* long rows is the number of surviving rows times the number of detected date
\* columns.
C26_ReshapeCount ==
    (job \in Ingestion /\ ~PipelineRaised) =>
        Len(LongRows) = Len(SurvivingRows) * Len(DateColumns)

\* --------------------------------------- utils/db_utils.bulk_insert paths
\* C28 as stated: in a creating run whose pipeline did not raise, every handed row
\* whose key was stored before the run is on the update path of bulk_insert and not
\* on its insert path.
C28_StoredKeyRoutedToUpdate ==
    (job = "creating" /\ ~PipelineRaised) =>
        \A h \in handed :
            Key3(h) \in {Key3(t) : t \in pre} =>
                h \in update_data(pre, handed) /\ h \notin insert_data(pre, handed)

\* C30: when import_sales_task has completed an attempt in which every statement
\* succeeded, the keys and the metrics of the sales table are those that import_sales
\* leaves for every other listing order of the folder, also when two files carry
\* values for the same (project, segment, month).
C30_OrderIndependent ==
    (task.state = "completed" /\ ~task.lost) =>
        \A files_to_proceed \in get_all_files(folder) :
            KeyedMetrics(sales) = KeyedMetrics(ImportFiles(files_to_proceed, {}, projects))

\* C27: import_sales_task makes at most RETRIES + 1 attempts, an attempt calls main_job
\* once per listed file, and when an attempt has completed, whatever the failed
\* attempts before it had written, the sales table holds the keys and the metrics that
\* one import of the same listing leaves when no main_job raises and every statement
\* succeeds.
C27_RetryLeavesFailureFreeStore ==
    /\ task.attempt <= RETRIES + 1
    /\ task.next <= Len(task.order) + 1
    /\ task.state = "completed" =>
           KeyedMetrics(sales) = KeyedMetrics(ImportFiles(task.order, {}, projects))


====
